---- MODULE Spec2Model ----
(***************************************************************************)
(* Press-to-talk pipeline of whisper-input-mac: PressHoldDetector and the  *)
(* hotkey adapter feed the press-event queue; TranscriptionOrchestrator    *)
(* consumes it and drives PermissionsCoordinator, AudioCaptureService, the *)
(* transcriber and the text injector.                                      *)
(*                                                                         *)
(* One step of the model is one run of a callback or of a coroutine up to  *)
(* its next suspension point (an await that really suspends).  A put on    *)
(* the unbounded asyncio.Queue never suspends.  Callback dispatch through  *)
(* loop.call_soon_threadsafe and asyncio.create_task is FIFO, so the order *)
(* in which the detector dispatches callbacks is the order in which the    *)
(* events reach the queue; the two hops are folded into the emitting step. *)
(***************************************************************************)
EXTENDS Integers, Sequences, FiniteSets, TLC

\* ------------------------------------------------------------------ bounds
MaxPresses == 3        \* down-events and hotkey presses delivered while the consumer runs
PollLimit == 1         \* turns of the accessibility polling loop (timeout / poll_interval)
MaxDetectorDowns == 3  \* down-events delivered to a detector studied on its own
MaxReloads == 1        \* language changes delivered to the orchestrator
MaxSends == 2          \* calls of send_text on an injector studied on its own
MaxRequests == 3       \* calls of set_state on an icon studied on its own
MaxUpdates == 3        \* permission checks made on a coordinator studied on its own
MaxTimeout == 3        \* largest timeout of wait_for_accessibility_permission, in time units
MaxInterval == 2       \* largest poll_interval of it, in the same units

\* --------------------------------------------------------------- constants
None == 0

PermissionState == {"pending", "granted", "denied"}

\* Texts a transcription backend may return, as character sequences.
Texts == {<< >>, <<" ">>, <<"a">>}

VARIABLES
    \* PressHoldDetector
    is_pressed,          \* _is_pressed
    hold_task,           \* _hold_task: id of the task it refers to, or None
    tasks,               \* every _fire_hold task created: "sleeping" | "done" | "cancelled"
    \* StatusIconController
    press_events,        \* press_events queue, the 'type' of each event dict
    hotkeys,             \* number of hotkey presses delivered so far
    \* TranscriptionOrchestrator
    cfg,                 \* constructor: [coordinator, injector] present or not
    pc,                  \* where the single consumer coroutine is suspended
    current_session_id,  \* _current_session_id
    is_processing,       \* _is_processing
    session_id,          \* local session_id of _on_press_released
    uuids,               \* number of uuid4() values drawn
    polls,               \* completed turns of wait_for_accessibility_permission's loop
    injection_events,    \* injection_events queue
    consumer_running,    \* handle_press_lifecycle is in its loop
    transcriber,         \* self.transcriber: id of the instance it refers to
    shutdown_calls,      \* the transcriber instances shutdown() was called on, in order
    in_flight,           \* instance whose transcribe_audio call is awaited, or None
    listening,           \* _on_preference_changed is registered with the preferences store
    \* PreferencesStore
    prefs,               \* [microphone_state, accessibility_state] held by the store
    writable,            \* constant of a behaviour: PreferencesStore.save succeeds
    \* PermissionsCoordinator
    perm,                \* [microphone, accessibility]
    updates,             \* number of permission checks made on the coordinator directly
    notified,            \* (history) what the last of them did with on_state_change
    wait,                \* a wait_for_accessibility_permission call made on the coordinator directly
    \* AudioCaptureService and the temporary files it owns
    audio,               \* [is_recording, session_id, temp_file_path, event_queue, permission_requested]
    files,               \* temporary artifacts present on disk
    \* StatusIconController, icon state
    current_state,       \* current_state: the state the icon shows
    debounce_task,       \* _debounce_task: index of the delayed_set task it refers to, or None
    debounce_tasks,      \* every delayed_set task created: [request, status]
    ready,               \* the loop's queue of tasks ready to run, in order
    requests,            \* (history) every set_state call: [state, superseded, applied]
    \* TextInjector and the general pasteboard
    restore_clipboard,   \* ClipboardFallback.restore_clipboard, fixed at construction
    clipboard,           \* content of the general pasteboard
    posted,              \* keystroke events posted to the HID event tap, in order
    \* history (not program state)
    track,               \* constant of a behaviour: the histories marked (*) are recorded
    tapped,              \* (*) presses whose up-event came while their hold delay was outstanding
    enq_late,            \* (*) for each queued event: was it enqueued while pc = "transcribing"
    last,                \* the event handled last, and how its handling ended
    failure_seen,        \* (*) some handler has ended in a failure
    last_start,          \* the last call of AudioCaptureService.start_recording
    last_stop,           \* the last call of AudioCaptureService.stop_recording
    cycle,               \* (*) what happened since the last press_started was handled
    first_permission,    \* (*) how the first ensure_microphone_permission call ended
    sends,               \* number of calls of TextInjector.send_text
    last_send,           \* the last call of TextInjector.send_text and what it returned
    last_paste           \* the paste_text call made by that send_text, if it made one

detVars == <<is_pressed, hold_task, tasks, tapped>>
queueVars == <<press_events, enq_late>>
orchVars == <<pc, current_session_id, is_processing, session_id, uuids, polls,
              injection_events, consumer_running, in_flight>>
envVars == <<cfg, track, writable>>
ctlVars == <<transcriber, shutdown_calls, listening>>
svcVars == <<perm, prefs, audio, files>>
histVars == <<last, failure_seen, last_start, last_stop, cycle, first_permission>>
boardVars == <<restore_clipboard, clipboard, posted, last_paste>>
iconVars == <<current_state, debounce_task, debounce_tasks, ready, requests>>
sendVars == <<sends, last_send>>
coordVars == <<updates, notified, wait>>
vars == <<is_pressed, hold_task, tasks, press_events, hotkeys, cfg, pc,
          current_session_id, is_processing, session_id, uuids, polls,
          injection_events, consumer_running, transcriber, shutdown_calls, in_flight,
          listening, prefs, writable, perm, audio, files, track,
          tapped, enq_late, last, failure_seen, last_start, last_stop, cycle, first_permission,
          restore_clipboard, clipboard, posted, sends, last_send, last_paste,
          current_state, debounce_task, debounce_tasks, ready, requests,
          updates, notified, wait>>

\* ------------------------------------------------------------------- Init
AudioInit ==
    [is_recording |-> FALSE, session_id |-> None, temp_file_path |-> None,
     event_queue |-> << >>, permission_requested |-> FALSE]

CycleInit == [events |-> << >>, clean |-> TRUE, started |-> FALSE,
              stopped |-> FALSE, emitted |-> FALSE, after_failure |-> FALSE]

NoEvent == [type |-> "none", result |-> "none", held |-> None, live |-> FALSE,
            late |-> FALSE, error |-> "none"]

NoStart == [session_id |-> None, accepted |-> FALSE, raised |-> FALSE,
            microphone |-> "pending", live |-> FALSE, late |-> FALSE]

NoStop == [session_id |-> None, result |-> None, active |-> None, recording |-> FALSE]

\* Python's None where a string is expected (the error detail of send_text).
NoDetail == "None"

\* wait_for_accessibility_permission has not been called on the coordinator
NoWait == [pc |-> "none", timeout |-> 0, poll_interval |-> 1, elapsed |-> 0, polls |-> 0,
           observed |-> FALSE, result |-> "none", left |-> "none"]

\* no permission check has been made on the coordinator directly
NoNotification == [capability |-> "none", new_state |-> "none", calls |-> 0,
                   status |-> None, outcome |-> "none"]

\* What the general pasteboard holds: nothing, a string, or content that has
\* no string representation (stringForType_ answers None for it).
ClipEmpty == [kind |-> "empty", text |-> << >>]
ClipOther == [kind |-> "other", text |-> << >>]
ClipText(t) == [kind |-> "text", text |-> t]

NoSend == [text |-> << >>, prefer_clipboard |-> FALSE, attempts |-> << >>,
           succeeded |-> << >>, success |-> FALSE, error |-> NoDetail]

NoPaste == [text |-> << >>, read |-> "ok", restore |-> "ok", wrote |-> FALSE,
            trust |-> "unasked", keystroke |-> FALSE, success |-> FALSE]

\* The state after construction with fresh preferences (both permission
\* states "pending"); running says whether handle_press_lifecycle has been
\* started, recorded whether the histories marked (*) are kept, saves
\* whether the preferences file can be written, restores whether the
\* injector was built with restore_clipboard.
InitState(running, recorded, saves, restores) ==
    /\ is_pressed = FALSE
    /\ hold_task = None
    /\ tasks = << >>
    /\ press_events = << >>
    /\ hotkeys = 0
    /\ cfg \in [coordinator : BOOLEAN, injector : BOOLEAN]
    /\ pc = "idle"
    /\ current_session_id = None
    /\ is_processing = FALSE
    /\ session_id = None
    /\ uuids = 0
    /\ polls = 0
    /\ injection_events = << >>
    /\ consumer_running = running
    /\ transcriber = 1
    /\ shutdown_calls = << >>
    /\ in_flight = None
    /\ listening = TRUE
    /\ prefs = [microphone_state |-> "pending", accessibility_state |-> "pending"]
    /\ writable = saves
    /\ perm = [microphone |-> "pending", accessibility |-> "pending"]
    /\ audio = AudioInit
    /\ files = {}
    /\ track = recorded
    /\ tapped = {}
    /\ enq_late = << >>
    /\ last = NoEvent
    /\ failure_seen = FALSE
    /\ last_start = NoStart
    /\ last_stop = NoStop
    /\ cycle = CycleInit
    /\ first_permission = "none"
    /\ current_state = "idle"
    /\ debounce_task = None
    /\ debounce_tasks = << >>
    /\ ready = << >>
    /\ requests = << >>
    /\ restore_clipboard = restores
    /\ clipboard = ClipEmpty
    /\ posted = << >>
    /\ sends = 0
    /\ last_send = NoSend
    /\ last_paste = NoPaste
    /\ updates = 0
    /\ notified = NoNotification
    /\ wait = NoWait

\* The orchestrator builds TextInjector(restore_clipboard=True).
InitWith(running, recorded, saves) == InitState(running, recorded, saves, TRUE)

Init == InitWith(TRUE, FALSE, TRUE)

\* ------------------------------------------------------ press-event queue
\* StatusIconController._emit_press_event: put {"type": event_type} on the queue.
EmitPressEvents(types) ==
    /\ press_events' = press_events \o types
    /\ enq_late' = enq_late \o [i \in 1..Len(types) |-> track /\ pc = "transcribing"]

\* ------------------------------------------------------ PressHoldDetector
\* _handle_mouse_down: a down-event inside the button starts a press; the
\* handler does not look at _is_pressed.  At most limit down-events arrive.
MouseDown(limit, inside) ==
    /\ Len(tasks) < limit
    /\ IF inside
       THEN /\ is_pressed' = TRUE
            /\ tasks' = Append(tasks, "sleeping")
            /\ hold_task' = Len(tasks) + 1
            /\ EmitPressEvents(<<"press_started">>)
            /\ UNCHANGED tapped
       ELSE UNCHANGED <<detVars, queueVars>>
    /\ UNCHANGED <<hotkeys, envVars, iconVars, coordVars, ctlVars, boardVars, sendVars, orchVars, svcVars, histVars>>

HandleMouseDown(inside) == MouseDown(MaxPresses - hotkeys, inside)

\* _handle_mouse_up: the tasks it cancels (_hold_task, if set and not done).
CancelledByUp(ht, ts) == IF ht # None /\ ts[ht] = "sleeping" THEN {ht} ELSE {}

\* _handle_mouse_up
HandleMouseUp ==
    /\ IF is_pressed
       THEN /\ is_pressed' = FALSE
            /\ tasks' = [t \in DOMAIN tasks |->
                            IF t \in CancelledByUp(hold_task, tasks) THEN "cancelled"
                            ELSE tasks[t]]
            /\ hold_task' = IF CancelledByUp(hold_task, tasks) # {} THEN None ELSE hold_task
            /\ tapped' = IF track
                          THEN tapped \cup {t \in DOMAIN tasks : tasks[t] = "sleeping"}
                          ELSE tapped
            /\ EmitPressEvents(<<"press_released">>)
       ELSE UNCHANGED <<detVars, queueVars>>
    /\ UNCHANGED <<hotkeys, envVars, iconVars, coordVars, ctlVars, boardVars, sendVars, orchVars, svcVars, histVars>>

\* Ids a _fire_hold task can have within the bounds.
TaskIds == 1..(IF MaxPresses > MaxDetectorDowns THEN MaxPresses ELSE MaxDetectorDowns)

\* _fire_hold: the sleep of task t ends without a cancellation.
FireHold(t) ==
    /\ t \in DOMAIN tasks
    /\ tasks[t] = "sleeping"
    /\ tasks' = [tasks EXCEPT ![t] = "done"]
    /\ EmitPressEvents(<<"hold_started">>)
    /\ UNCHANGED <<is_pressed, hold_task, tapped, hotkeys, envVars, iconVars, coordVars, ctlVars, boardVars, sendVars, orchVars, svcVars, histVars>>

\* _hotkey_press_lifecycle: the events it emits, one _emit_press_event each.
HotkeyLifecycle_noHold == <<"press_started", "press_released">>

HotkeyLifecycle == <<"press_started", "hold_started", "press_released">>

\* StatusIconController._on_hotkey_pressed / _hotkey_press_lifecycle: the
\* task runs its three puts without suspending.
HotkeyPressed ==
    /\ Len(tasks) + hotkeys < MaxPresses
    /\ hotkeys' = hotkeys + 1
    /\ EmitPressEvents(HotkeyLifecycle)
    /\ UNCHANGED <<detVars, envVars, iconVars, coordVars, ctlVars, boardVars, sendVars, orchVars, svcVars, histVars>>

\* ------------------------------------------------------ PreferencesStore
\* set(key, value, save=True): the stored values afterwards.  When the save
\* fails the old value is put back.
PreferencesSet(pr, key, value, saved) == IF saved THEN [pr EXCEPT ![key] = value] ELSE pr

\* ------------------------------------------------- PermissionsCoordinator
\* _update_microphone_state, line 368: the store after the state went from
\* p.microphone to new_state.
PersistMicrophoneState(pr, p, new_state) ==
    IF new_state # p.microphone
    THEN PreferencesSet(pr, "microphone_state", new_state, writable)
    ELSE pr

\* _update_accessibility_state, line 389
PersistAccessibilityState(pr, p, new_state) ==
    IF new_state # p.accessibility
    THEN PreferencesSet(pr, "accessibility_state", new_state, writable)
    ELSE pr

\* _update_microphone_state
UpdateMicrophoneState(p, new_state) == [p EXCEPT !.microphone = new_state]

\* _update_accessibility_state
UpdateAccessibilityState(p, new_state) == [p EXCEPT !.accessibility = new_state]

\* check_microphone_permission(request_if_needed=True): the state that the
\* answer of _request_microphone_permission is turned into.
MicrophoneStateFor(granted) == IF granted THEN "granted" ELSE "denied"

\* check_accessibility_permission: ax is what AXIsProcessTrustedWithOptions
\* did: "trusted", "untrusted" or "error" (it raised).  The state returned.
AccessibilityStateFor(p, ax) ==
    CASE ax = "trusted" -> "granted"
      [] ax = "untrusted" -> "denied"
      [] OTHER -> p.accessibility

\* check_accessibility_permission: the coordinator's state afterwards.
CheckAccessibilityPermission(p, ax) ==
    UpdateAccessibilityState(p, AccessibilityStateFor(p, ax))

MicDeniedRaises_never(mic_state) == FALSE

\* ensure_ready: the microphone state for which it raises PermissionError.
MicDeniedRaises(mic_state) == mic_state = "denied"

AxDeniedRaises_never(ax_state) == FALSE

\* ensure_ready: the accessibility state for which it raises PermissionError.
AxDeniedRaises(ax_state) == ax_state = "denied"

AxOutcomes == {"trusted", "untrusted", "error"}

\* What the on_state_change callback does when it is called.
CallbackOutcomes == {"returns", "raises"}

StateChanged_always(old_state, new_state) == TRUE

\* _update_microphone_state, _update_accessibility_state: the test that
\* guards the assignment, the save and the callback.
StateChanged(old_state, new_state) == new_state # old_state

\* _update_microphone_state, _update_accessibility_state, the "Notify
\* callback" part: status is what get_status() returns after the assignment,
\* cb what the callback does; a raise is caught and logged.
Notify(capability, old_state, new_state, status, cb) ==
    [capability |-> capability, new_state |-> new_state,
     calls |-> IF StateChanged(old_state, new_state) THEN 1 ELSE 0,
     status |-> IF StateChanged(old_state, new_state) THEN status ELSE None,
     outcome |-> CASE ~StateChanged(old_state, new_state) -> "none"
                   [] cb = "raises" -> "logged"
                   [] OTHER -> "returned"]

\* check_microphone_permission(request_if_needed=True) called on a
\* coordinator built with an on_state_change callback.
CheckMicrophonePermissionCall(granted, cb) ==
    /\ updates < MaxUpdates
    /\ updates' = updates + 1
    /\ LET new_state == MicrophoneStateFor(granted)
           p == UpdateMicrophoneState(perm, new_state)
       IN /\ perm' = p
          /\ prefs' = PersistMicrophoneState(prefs, perm, new_state)
          /\ notified' = Notify("microphone", perm.microphone, new_state, p, cb)
    /\ UNCHANGED <<detVars, queueVars, hotkeys, envVars, iconVars, ctlVars, boardVars,
                   sendVars, orchVars, audio, files, histVars, wait>>

\* check_accessibility_permission called on such a coordinator.
CheckAccessibilityPermissionCall(ax, cb) ==
    /\ updates < MaxUpdates
    /\ updates' = updates + 1
    /\ LET new_state == AccessibilityStateFor(perm, ax)
           p == CheckAccessibilityPermission(perm, ax)
       IN /\ perm' = p
          /\ prefs' = PersistAccessibilityState(prefs, perm, new_state)
          /\ notified' = IF ax = "error" THEN NoNotification
                         ELSE Notify("accessibility", perm.accessibility, new_state, p, cb)
    /\ UNCHANGED <<detVars, queueVars, hotkeys, envVars, iconVars, ctlVars, boardVars,
                   sendVars, orchVars, audio, files, histVars, wait>>

\* wait_for_accessibility_permission(prompt=True, timeout, poll_interval),
\* up to its first suspension: the check with the prompt, and on anything
\* but granted the sleep of one second before the loop.
WaitCall(timeout, poll_interval, ax) ==
    /\ wait.pc \in {"none", "returned"}
    /\ updates < MaxUpdates
    /\ updates' = updates + 1
    /\ LET state == AccessibilityStateFor(perm, ax)
       IN /\ perm' = CheckAccessibilityPermission(perm, ax)
          /\ prefs' = PersistAccessibilityState(prefs, perm, state)
          /\ wait' = [pc |-> IF state = "granted" THEN "returned" ELSE "loop",
                      timeout |-> timeout, poll_interval |-> poll_interval,
                      elapsed |-> 0, polls |-> 0, observed |-> ax = "trusted",
                      result |-> IF state = "granted" THEN state ELSE "none",
                      left |-> IF state = "granted" THEN state ELSE "none"]
    /\ UNCHANGED <<detVars, queueVars, hotkeys, envVars, iconVars, ctlVars, boardVars,
                   sendVars, orchVars, audio, files, histVars, notified>>

\* wait_for_accessibility_permission: `while elapsed < timeout`
LoopContinues(elapsed, timeout) == elapsed < timeout

\* wait_for_accessibility_permission: one turn of the loop (the check on the
\* executor, then the sleep of poll_interval), or what follows the loop.
WaitPoll(ax) ==
    /\ wait.pc = "loop"
    /\ IF LoopContinues(wait.elapsed, wait.timeout)
       THEN LET state == AccessibilityStateFor(perm, ax)
            IN /\ perm' = CheckAccessibilityPermission(perm, ax)
               /\ prefs' = PersistAccessibilityState(prefs, perm, state)
               /\ wait' = IF state = "granted"
                          THEN [wait EXCEPT !.pc = "returned", !.polls = @ + 1,
                                            !.observed = ax = "trusted",
                                            !.result = state, !.left = state]
                          ELSE [wait EXCEPT !.polls = @ + 1,
                                            !.elapsed = @ + wait.poll_interval]
       ELSE /\ perm' = UpdateAccessibilityState(perm, "denied")
            /\ prefs' = PersistAccessibilityState(prefs, perm, "denied")
            /\ wait' = [wait EXCEPT !.pc = "returned", !.result = "denied",
                                      !.left = "denied"]
    /\ UNCHANGED <<detVars, queueVars, hotkeys, envVars, iconVars, ctlVars, boardVars,
                   sendVars, orchVars, audio, files, histVars, updates, notified>>

\* ensure_ready: the message of the PermissionError raised for a capability.
PermissionErrorFor_generic(capability) == "Permission denied"

PermissionErrorFor(capability) ==
    IF capability = "microphone" THEN "Microphone permission denied"
    ELSE "Accessibility permission denied"

\* ---------------------------------------------------- AudioCaptureService
CleanupOnError_keepsFile(a, f) ==
    [audio |-> [a EXCEPT !.is_recording = FALSE], files |-> f]

\* _cleanup_on_error
CleanupOnError(a, f) ==
    LET exists == a.temp_file_path # None /\ a.temp_file_path \in f IN
    [audio |-> [a EXCEPT !.is_recording = FALSE,
                         !.temp_file_path = IF exists THEN None ELSE @],
     files |-> IF exists THEN f \ {a.temp_file_path} ELSE f]

StartOutcomes == {"ok", "tempfile_error", "engine_error"}

StartRejects_never(a) == FALSE

\* start_recording: the guard that turns the call into a logged no-op.
StartRejects(a) == a.is_recording

\* start_recording(sid).  outcome: "ok", "tempfile_error" (NamedTemporaryFile
\* raised, _temp_file_path keeps its old value) or "engine_error" (a later
\* step raised, the new temporary file exists).  The artifact of session sid
\* is named sid.
StartRecording(a, f, sid, outcome) ==
    IF StartRejects(a)
    THEN [audio |-> a, files |-> f, accepted |-> FALSE, raised |-> FALSE]
    ELSE LET a1 == [a EXCEPT !.session_id = sid]
             a2 == [a1 EXCEPT !.temp_file_path = sid]
         IN CASE outcome = "ok" ->
                   [audio |-> [a2 EXCEPT !.is_recording = TRUE,
                                         !.event_queue = Append(@, [type |-> "started", session_id |-> sid])],
                    files |-> f \cup {sid}, accepted |-> TRUE, raised |-> FALSE]
              [] outcome = "tempfile_error" ->
                   [audio |-> CleanupOnError(a1, f).audio,
                    files |-> CleanupOnError(a1, f).files,
                    accepted |-> TRUE, raised |-> TRUE]
              [] OTHER ->
                   [audio |-> CleanupOnError(a2, f \cup {sid}).audio,
                    files |-> CleanupOnError(a2, f \cup {sid}).files,
                    accepted |-> TRUE, raised |-> TRUE]

StopOutcomes == {"ok", "error"}

StopRejects_anySession(a, sid) == ~a.is_recording

\* stop_recording: the guard that turns the call into a logged no-op.
StopRejects(a, sid) == ~a.is_recording \/ a.session_id # sid

\* stop_recording(sid).  outcome: "ok", or "error" (stopping the engine raised).
StopRecording(a, f, sid, outcome) ==
    IF StopRejects(a, sid)
    THEN [audio |-> a, files |-> f, result |-> None]
    ELSE IF outcome = "ok"
         THEN [audio |-> [a EXCEPT !.is_recording = FALSE,
                                   !.event_queue = Append(@, [type |-> "stopped", session_id |-> sid])],
               files |-> f, result |-> a.temp_file_path]
         ELSE [audio |-> CleanupOnError(a, f).audio,
               files |-> CleanupOnError(a, f).files, result |-> None]

CancelOutcomes == {"ok", "error"}

\* cancel_recording.  outcome: "ok", or "error" (stopping the engine or
\* removing the file raised; the except clause only logs).
CancelRecording(a, f, outcome) ==
    IF ~a.is_recording \/ outcome = "error"
    THEN [audio |-> a, files |-> f]
    ELSE [audio |-> [a EXCEPT !.is_recording = FALSE],
          files |-> IF a.temp_file_path # None THEN f \ {a.temp_file_path} ELSE f]

\* ------------------------------------------------------- auto-punctuation
RECURSIVE LStrip(_)
LStrip(t) == IF t # << >> /\ Head(t) = " " THEN LStrip(Tail(t)) ELSE t

RECURSIVE RStrip(_)
RStrip(t) == IF t # << >> /\ t[Len(t)] = " " THEN RStrip(SubSeq(t, 1, Len(t) - 1)) ELSE t

\* str.strip()
Strip(t) == RStrip(LStrip(t))

\* str.upper() on one character
Upper(c) == IF c = "a" THEN "A" ELSE c

\* TranscriptionOrchestrator._apply_auto_punctuation
ApplyAutoPunctuation(text, auto_punct) ==
    IF text = << >> \/ ~auto_punct
    THEN text
    ELSE LET processed == Strip(text)
             capitalized == IF processed # << >>
                            THEN <<Upper(Head(processed))>> \o Tail(processed)
                            ELSE processed
         IN IF capitalized # << >> /\ capitalized[Len(capitalized)] \notin {".", "!", "?"}
            THEN Append(capitalized, ".")
            ELSE capitalized

\* ------------------------------------------- StatusIconController, icon
IconState == {"idle", "recording", "busy"}

\* _debounced_set_state, line 362: the previous task is cancelled if there is
\* one and it is not done.
CancelsPrevious_never(task, status) == FALSE

CancelsPrevious(task, status) == task # None /\ status \notin {"done", "cancelled"}

\* The delay of the request made last has not elapsed: its delayed_set task
\* is not created yet or still sleeps.
DelayOutstanding(r) ==
    \/ \A t \in DOMAIN debounce_tasks : debounce_tasks[t].request # r
    \/ \E t \in DOMAIN debounce_tasks :
          debounce_tasks[t].request = r /\ debounce_tasks[t].status = "sleeping"

\* set_state(state) inside the running loop: a task that will run
\* _debounced_set_state(state) is created.
SetState(state) ==
    /\ Len(requests) < MaxRequests
    /\ ready' = Append(ready, [run |-> "debounced_set_state", id |-> Len(requests) + 1])
    /\ requests' = Append([r \in DOMAIN requests |->
                              IF r = Len(requests) /\ DelayOutstanding(r)
                              THEN [requests[r] EXCEPT !.superseded = TRUE]
                              ELSE requests[r]],
                          [state |-> state, superseded |-> FALSE, applied |-> FALSE])
    /\ UNCHANGED <<detVars, queueVars, hotkeys, envVars, coordVars, ctlVars, orchVars, svcVars, histVars,
                   boardVars, sendVars, current_state, debounce_task, debounce_tasks>>

\* The asyncio.sleep of delayed_set task t ends: the task becomes ready.
DelayElapsed(t) ==
    /\ t \in DOMAIN debounce_tasks
    /\ debounce_tasks[t].status = "sleeping"
    /\ debounce_tasks' = [debounce_tasks EXCEPT ![t].status = "woken"]
    /\ ready' = Append(ready, [run |-> "delayed_set", id |-> t])
    /\ UNCHANGED <<detVars, queueVars, hotkeys, envVars, coordVars, ctlVars, orchVars, svcVars, histVars,
                   boardVars, sendVars, current_state, debounce_task, requests>>

\* The loop runs the first ready task.  _debounced_set_state cancels the
\* previous delayed_set task and creates the next one; delayed_set, resumed
\* after its sleep, calls _set_state_immediate unless it was cancelled.
RunReady ==
    /\ ready # << >>
    /\ ready' = Tail(ready)
    /\ LET job == Head(ready) IN
       IF job.run = "debounced_set_state"
       THEN LET status == IF debounce_task = None THEN "none"
                          ELSE debounce_tasks[debounce_task].status
                kept == IF CancelsPrevious(debounce_task, status)
                        THEN [debounce_tasks EXCEPT ![debounce_task].status = "cancelled"]
                        ELSE debounce_tasks
            IN /\ debounce_tasks' = Append(kept, [request |-> job.id, status |-> "sleeping"])
               /\ debounce_task' = Len(debounce_tasks) + 1
               /\ UNCHANGED <<current_state, requests>>
       ELSE IF debounce_tasks[job.id].status = "cancelled"
            THEN UNCHANGED <<current_state, debounce_task, debounce_tasks, requests>>
            ELSE /\ current_state' = requests[debounce_tasks[job.id].request].state
                 /\ debounce_tasks' = [debounce_tasks EXCEPT ![job.id].status = "done"]
                 /\ requests' = [requests EXCEPT ![debounce_tasks[job.id].request].applied = TRUE]
                 /\ UNCHANGED debounce_task
    /\ UNCHANGED <<detVars, queueVars, hotkeys, envVars, coordVars, ctlVars, orchVars, svcVars, histVars,
                   boardVars, sendVars>>

\* ----------------------------------------------------------- TextInjector
\* What the operating system answers during one call of send_text: direct is
\* how KeyboardInjector.send_unicode ends ("untrusted": ensure_trusted_access
\* raised, "error": creating or posting the events raised); read, write, trust,
\* post and restore are the answers to the steps of paste_text ("refused":
\* setString_forType_ returned False; "error_clear" / "error_set": the call
\* raised in clearContents or after it).
\* The answer to a step that an earlier answer keeps from being reached is
\* fixed to its first value.
InjectEnv ==
    {e \in [direct : {"ok", "untrusted", "error"},
            read : {"ok", "error"},
            write : {"ok", "refused", "error_clear", "error_set"},
            trust : {"trusted", "untrusted", "error"},
            post : {"ok", "error"},
            restore : {"ok", "error_clear", "error_set"}] :
        /\ e.write # "ok" => e.trust = "trusted"
        /\ e.trust # "trusted" => e.post = "ok"
        /\ e.post # "ok" => e.restore = "ok"}

\* paste_text posts Cmd+V only if AXIsProcessTrustedWithOptions answered yes.
PostsKeystroke_always(trust) == TRUE

PostsKeystroke(trust) == trust = "trusted"

\* paste_text writes the saved content back if restoration is enabled and a
\* string was saved.
RestoreApplies_never(restores, previous) == FALSE

RestoreApplies(restores, previous) == restores /\ previous.kind = "text"

\* ClipboardFallback.paste_text: the pasteboard and the posted events after
\* the call, and in call the value returned, the answers the pasteboard gave
\* to the read and to the restoring write, and how far the call got.
PasteText(text, clip, posts, restores, env) ==
    LET previous == IF restores /\ env.read = "ok" /\ clip.kind = "text"
                    THEN clip ELSE ClipEmpty
        call == [text |-> text, read |-> env.read, restore |-> env.restore,
                 wrote |-> FALSE, trust |-> "unasked", keystroke |-> FALSE,
                 success |-> FALSE]
        out(c, p, k) == [clipboard |-> c, posted |-> p, call |-> k]
        written == [call EXCEPT !.wrote = TRUE, !.trust = env.trust]
    IN
    IF text = << >> THEN out(clip, posts, call)
    ELSE IF env.write = "error_clear" THEN out(clip, posts, call)
    ELSE IF env.write \in {"refused", "error_set"} THEN out(ClipEmpty, posts, call)
    ELSE IF env.trust = "error" THEN out(ClipText(text), posts, written)
    ELSE IF ~PostsKeystroke(env.trust)
         THEN out(ClipText(text), posts, [written EXCEPT !.success = TRUE])
    ELSE IF env.post = "error"
         THEN out(ClipText(text), posts, [written EXCEPT !.success = TRUE])
    ELSE LET pasted == Append(posts, [key |-> "cmd_v", text |-> << >>])
             done == [written EXCEPT !.success = TRUE, !.keystroke = TRUE]
         IN IF ~RestoreApplies(restores, previous) THEN out(ClipText(text), pasted, done)
            ELSE out(CASE env.restore = "ok" -> previous
                       [] env.restore = "error_clear" -> ClipText(text)
                       [] OTHER -> ClipEmpty,
                     pasted, done)

\* send_text with prefer_clipboard goes to the clipboard strategy alone.
UsesClipboardOnly_never(prefer_clipboard) == FALSE

UsesClipboardOnly(prefer_clipboard) == prefer_clipboard

\* send_text calls the clipboard fallback in the except clause of the direct
\* strategy only.
FallbackAttempted_always(direct_raised) == TRUE

FallbackAttempted(direct_raised) == direct_raised

\* The pair send_text returns after the strategies in attempts ended as in
\* succeeded.
SendResult_swallows(attempts, succeeded) ==
    [success |-> TRUE, error |-> NoDetail]

SendResult(attempts, succeeded) ==
    IF attempts = << >> THEN [success |-> FALSE, error |-> "Cannot inject empty text"]
    ELSE IF succeeded[Len(succeeded)] THEN [success |-> TRUE, error |-> NoDetail]
    ELSE IF attempts = <<"clipboard">>
         THEN [success |-> FALSE, error |-> "Clipboard paste failed"]
         ELSE [success |-> FALSE,
               error |-> "Both keystroke injection and clipboard fallback failed"]

\* TextInjector.send_text(text, prefer_clipboard).
SendText(text, prefer_clipboard, clip, posts, restores, env) ==
    LET paste == PasteText(text, clip, posts, restores, env)
        out(c, p, k, attempts, succeeded) ==
            [clipboard |-> c, posted |-> p, paste |-> k,
             send |-> [text |-> text, prefer_clipboard |-> prefer_clipboard,
                       attempts |-> attempts, succeeded |-> succeeded,
                       success |-> SendResult(attempts, succeeded).success,
                       error |-> SendResult(attempts, succeeded).error]]
    IN
    IF text = << >> THEN out(clip, posts, NoPaste, << >>, << >>)
    ELSE IF UsesClipboardOnly(prefer_clipboard)
         THEN out(paste.clipboard, paste.posted, paste.call,
                  <<"clipboard">>, <<paste.call.success>>)
    ELSE IF ~FallbackAttempted(env.direct # "ok")
         THEN out(clip, Append(posts, [key |-> "unicode", text |-> text]), NoPaste,
                  <<"direct">>, <<TRUE>>)
    ELSE LET after == IF env.direct = "ok"
                      THEN Append(posts, [key |-> "unicode", text |-> text]) ELSE posts
             again == PasteText(text, clip, after, restores, env)
         IN out(again.clipboard, again.posted, again.call,
                <<"direct", "clipboard">>, <<env.direct = "ok", again.call.success>>)

\* Content another application can put on the general pasteboard.
Clips == {ClipEmpty, ClipOther, ClipText(<<"p">>)}

\* The user copies something in another application.
ExternalCopy(c) ==
    /\ c # clipboard
    /\ clipboard' = c
    /\ UNCHANGED <<detVars, queueVars, hotkeys, envVars, iconVars, coordVars, ctlVars, orchVars, svcVars, histVars,
                   restore_clipboard, posted, sendVars, last_paste>>

\* One call of TextInjector.send_text on its own.
SendTextCall(text, prefer_clipboard, env) ==
    /\ sends < MaxSends
    /\ LET r == SendText(text, prefer_clipboard, clipboard, posted, restore_clipboard, env)
       IN /\ clipboard' = r.clipboard
          /\ posted' = r.posted
          /\ last_send' = r.send
          /\ last_paste' = r.paste
    /\ sends' = sends + 1
    /\ UNCHANGED <<detVars, queueVars, hotkeys, envVars, iconVars, coordVars, ctlVars, orchVars, svcVars, histVars,
                   restore_clipboard>>

\* ---------------------------------------------- TranscriptionOrchestrator
\* How a handler can end in failure.
FailureResults == {"permission_denied", "permission_failed", "start_failed",
                   "stop_failed", "transcription_error", "empty_text",
                   "injector_missing", "injection_failed"}

\* handle_press_lifecycle: event = await press_events.get()
Dequeue_reentrant ==
    /\ consumer_running
    /\ press_events # << >>
    /\ press_events' = Tail(press_events)
    /\ enq_late' = Tail(enq_late)

Dequeue ==
    /\ pc = "idle"
    /\ consumer_running
    /\ press_events # << >>
    /\ press_events' = Tail(press_events)
    /\ enq_late' = Tail(enq_late)

\* The orchestrator holds a session id under which the capture is running.
SessionLive ==
    /\ current_session_id # None
    /\ audio.is_recording
    /\ audio.session_id = current_session_id

\* History entry for the event being taken from the queue.
Taken(type) ==
    [type |-> type, result |-> "pending", held |-> current_session_id,
     live |-> SessionLive, late |-> Head(enq_late), error |-> "none"]

\* The value recorded in cycle.
Cycle(c) == IF track THEN c ELSE CycleInit

\* The handler of event l ends with result.
Finish(l, result) ==
    /\ last' = [l EXCEPT !.result = result]
    /\ failure_seen' = (track /\ (failure_seen \/ result \in FailureResults))

\* The handler of event l suspends.
Suspend(l) ==
    /\ last' = l
    /\ UNCHANGED failure_seen

\* _on_press_started
OnPressStarted ==
    /\ Dequeue
    /\ Head(press_events) = "press_started"
    /\ Finish(Taken("press_started"), "none")
    /\ cycle' = Cycle([CycleInit EXCEPT !.events = <<"press_started">>,
                                        !.after_failure = failure_seen])
    /\ UNCHANGED <<detVars, hotkeys, envVars, iconVars, coordVars, ctlVars, boardVars, first_permission, sendVars, orchVars, svcVars, last_start, last_stop>>

\* _on_hold_started, line 205: self.audio_service.start_recording(sid), and
\* the except clause around it.  a is the audio service's state at the call,
\* mic the coordinator's microphone state at the call.
CallStartRecording(l, c, a, sid, outcome, mic) ==
    LET r == StartRecording(a, files, sid, outcome) IN
    /\ audio' = r.audio
    /\ files' = r.files
    /\ last_start' = [session_id |-> sid, accepted |-> r.accepted, raised |-> r.raised,
                      microphone |-> mic, live |-> l.live, late |-> l.late]
    /\ Finish(l, IF r.raised THEN "start_failed"
                 ELSE IF r.accepted THEN "started" ELSE "start_noop")
    /\ cycle' = Cycle([c EXCEPT !.clean = @ /\ ~r.raised,
                                !.started = @ \/ (r.accepted /\ ~r.raised)])
    /\ pc' = "idle"

\* _on_hold_started: the handler returns without calling start_recording.
HoldAbort(l, c, result) ==
    /\ Finish(l, result)
    /\ cycle' = Cycle([c EXCEPT !.clean = FALSE])
    /\ pc' = "idle"
    /\ UNCHANGED <<files, last_start>>

\* _on_hold_started, up to its first suspension
OnHoldStarted ==
    /\ Dequeue
    /\ Head(press_events) = "hold_started"
    /\ LET l == Taken("hold_started")
           c == [cycle EXCEPT !.events = Append(@, "hold_started")]
       IN IF is_processing
          THEN /\ Finish(l, "ignored")
               /\ cycle' = Cycle(c)
               /\ UNCHANGED <<pc, current_session_id, uuids, audio, files, last_start>>
          ELSE /\ uuids' = uuids + 1
               /\ current_session_id' = uuids + 1
               /\ IF cfg.coordinator
                  THEN /\ pc' = "ensure_ready_mic"
                       /\ Suspend(l)
                       /\ cycle' = Cycle(c)
                       /\ UNCHANGED <<audio, files, last_start>>
                  ELSE IF audio.permission_requested
                       THEN \E outcome \in StartOutcomes :
                               CallStartRecording(l, c, audio, uuids + 1, outcome, perm.microphone)
                       ELSE /\ pc' = "legacy_mic"
                            /\ audio' = [audio EXCEPT !.permission_requested = TRUE]
                            /\ Suspend(l)
                            /\ cycle' = Cycle(c)
                            /\ UNCHANGED <<files, last_start>>
    /\ UNCHANGED <<detVars, hotkeys, envVars, iconVars, coordVars, ctlVars, boardVars, first_permission, sendVars, is_processing, session_id, in_flight, polls,
                   injection_events, consumer_running, perm, prefs, last_stop>>

\* ensure_ready resumes with the answer of _request_microphone_permission,
\* then runs the first check of wait_for_accessibility_permission.
MicRequestDone(granted) ==
    /\ pc = "ensure_ready_mic"
    /\ LET mic_state == MicrophoneStateFor(granted)
           p1 == UpdateMicrophoneState(perm, mic_state)
           pr1 == PersistMicrophoneState(prefs, perm, mic_state)
       IN IF MicDeniedRaises(mic_state)
          THEN /\ perm' = p1
               /\ prefs' = pr1
               /\ HoldAbort([last EXCEPT !.error = PermissionErrorFor("microphone")],
                            cycle, "permission_denied")
               /\ UNCHANGED <<audio, polls>>
          ELSE \E ax \in AxOutcomes :
                 LET p2 == CheckAccessibilityPermission(p1, ax)
                     c == [cycle EXCEPT !.clean = @ /\ granted /\ ax = "trusted"]
                 IN /\ perm' = p2
                    /\ prefs' = PersistAccessibilityState(pr1, p1, AccessibilityStateFor(p1, ax))
                    /\ IF AccessibilityStateFor(p1, ax) = "granted"
                       THEN /\ \E outcome \in StartOutcomes :
                                 CallStartRecording(last, c, audio, current_session_id,
                                                    outcome, p2.microphone)
                            /\ UNCHANGED polls
                       ELSE /\ pc' = "ensure_ready_ax"
                            /\ polls' = 0
                            /\ cycle' = Cycle(c)
                            /\ Suspend(last)
                            /\ UNCHANGED <<audio, files, last_start>>
    /\ UNCHANGED <<detVars, queueVars, hotkeys, envVars, iconVars, coordVars, ctlVars, boardVars, first_permission, sendVars, current_session_id, is_processing,
                   session_id, in_flight, uuids, injection_events, consumer_running, last_stop>>

\* wait_for_accessibility_permission: one turn of the polling loop, or the
\* timeout once the loop has run its PollLimit turns.
AxPoll ==
    /\ pc = "ensure_ready_ax"
    /\ IF polls < PollLimit
       THEN \E ax \in AxOutcomes :
              LET p2 == CheckAccessibilityPermission(perm, ax)
                  c == [cycle EXCEPT !.clean = @ /\ ax = "trusted"]
              IN /\ perm' = p2
                 /\ prefs' = PersistAccessibilityState(prefs, perm, AccessibilityStateFor(perm, ax))
                 /\ IF AccessibilityStateFor(perm, ax) = "granted"
                    THEN /\ \E outcome \in StartOutcomes :
                              CallStartRecording(last, c, audio, current_session_id,
                                                 outcome, p2.microphone)
                         /\ polls' = 0
                    ELSE /\ polls' = polls + 1
                         /\ cycle' = Cycle(c)
                         /\ Suspend(last)
                         /\ UNCHANGED <<pc, audio, files, last_start>>
       ELSE /\ perm' = UpdateAccessibilityState(perm, "denied")
            /\ prefs' = PersistAccessibilityState(prefs, perm, "denied")
            /\ IF AxDeniedRaises("denied")
               THEN /\ HoldAbort([last EXCEPT !.error = PermissionErrorFor("accessibility")],
                                 cycle, "permission_denied")
                    /\ UNCHANGED audio
               ELSE \E outcome \in StartOutcomes :
                       CallStartRecording(last, cycle, audio, current_session_id,
                                          outcome, perm.microphone)
            /\ polls' = 0
    /\ UNCHANGED <<detVars, queueVars, hotkeys, envVars, iconVars, coordVars, ctlVars, boardVars, first_permission, sendVars, current_session_id, is_processing,
                   session_id, in_flight, uuids, injection_events, consumer_running, last_stop>>

LegacyMicOutcomes == {"granted", "denied", "config_error"}

\* AudioCaptureService.ensure_microphone_permission resumes with the answer
\* of _request_permission_on_main_thread (no PermissionsCoordinator).
LegacyMicDone(res) ==
    /\ pc = "legacy_mic"
    /\ first_permission' = IF track THEN res ELSE first_permission
    /\ IF res = "granted"
       THEN \E outcome \in StartOutcomes :
               CallStartRecording(last, cycle, audio, current_session_id, outcome,
                                  perm.microphone)
       ELSE /\ HoldAbort(last, cycle, "permission_failed")
            /\ UNCHANGED audio
    /\ UNCHANGED <<detVars, queueVars, hotkeys, envVars, iconVars, coordVars, ctlVars, boardVars, sendVars, current_session_id, is_processing,
                   session_id, in_flight, uuids, polls, injection_events, consumer_running, perm, prefs,
                   last_stop>>

ProcessingAfterHandler_noFinally(returned_early) == returned_early

\* _on_press_released, finally clause: the value _is_processing has when the
\* handler is left, whether by an early return or at its end.
ProcessingAfterHandler(returned_early) == FALSE

\* _on_press_released, except clauses: the exceptions raised in the try
\* block that do not leave the handler.
HandlerCatches(exc) == exc \in {"TranscriptionError", "Exception"}

\* _on_press_released, line 212: the handler returns at once.
NoSession_never(sid) == FALSE

NoSession(sid) == sid = None

StopFailed_never(audio_path) == FALSE

\* _on_press_released, line 223: `if not audio_path`, the handler returns.
StopFailed(audio_path) == audio_path = None

\* _on_press_released, up to the suspension in transcribe_audio
OnPressReleased ==
    /\ Dequeue
    /\ Head(press_events) = "press_released"
    /\ LET l == Taken("press_released")
           c == [cycle EXCEPT !.events = Append(@, "press_released")]
       IN IF NoSession(current_session_id)
          THEN /\ Finish(l, "no_session")
               /\ cycle' = Cycle(c)
               /\ UNCHANGED <<pc, current_session_id, is_processing, session_id,
                              in_flight, audio, files, last_stop>>
          ELSE \E outcome \in StopOutcomes :
                 LET r == StopRecording(audio, files, current_session_id, outcome) IN
                 /\ current_session_id' = None
                 /\ audio' = r.audio
                 /\ files' = r.files
                 /\ last_stop' = [session_id |-> current_session_id, result |-> r.result,
                                  active |-> audio.session_id,
                                  recording |-> audio.is_recording]
                 /\ IF StopFailed(r.result)
                    THEN /\ pc' = "idle"
                         /\ session_id' = None
                         /\ in_flight' = None
                         /\ is_processing' = ProcessingAfterHandler(TRUE)
                         /\ Finish(l, "stop_failed")
                         /\ cycle' = Cycle([c EXCEPT !.clean = @ /\ StopRejects(audio, current_session_id)])
                    ELSE /\ pc' = "transcribing"
                         /\ session_id' = current_session_id
                         /\ in_flight' = transcriber
                         /\ is_processing' = TRUE
                         /\ Suspend(l)
                         /\ cycle' = Cycle([c EXCEPT !.stopped = TRUE])
    /\ UNCHANGED <<detVars, hotkeys, envVars, iconVars, coordVars, ctlVars, boardVars, first_permission, sendVars, uuids, polls, injection_events,
                   consumer_running, perm, prefs, last_start>>

\* The dict put on injection_events ("none": the key is absent).
InjectionEvent(type, sid, text, error_message) ==
    [type |-> type, session_id |-> sid, text |-> text, char_count |-> Len(text),
     error_message |-> error_message]

\* _on_press_released resumes after transcribe_audio raised TranscriptionError.
TranscriptionFailed ==
    /\ pc = "transcribing"
    /\ pc' = "idle"
    /\ session_id' = None
    /\ in_flight' = None
    /\ is_processing' = ProcessingAfterHandler(FALSE)
    /\ consumer_running' = HandlerCatches("TranscriptionError")
    /\ Finish(last, "transcription_error")
    /\ cycle' = Cycle([cycle EXCEPT !.clean = FALSE])
    /\ UNCHANGED <<detVars, queueVars, hotkeys, envVars, iconVars, coordVars, ctlVars, boardVars, first_permission, sendVars, current_session_id, uuids, polls,
                   injection_events, svcVars, last_start, last_stop>>

\* _on_press_released, line 258: an empty text is not handed to the injector.
SkipsInjection_never(transcribed_text) == FALSE

SkipsInjection(transcribed_text) == transcribed_text = << >>

\* _on_press_released resumes with the transcription result {"text": text}:
\* auto-punctuation, injection, outcome event.  auto_punct is the value of the
\* auto-punctuation preference read at that moment, injected the value
\* paste_text returns inside send_text(transcribed_text, prefer_clipboard=True);
\* what that call does to the pasteboard is the subject of SpecInjector.
TranscriptionDone(text, auto_punct, injected) ==
    /\ pc = "transcribing"
    /\ LET transcribed_text == ApplyAutoPunctuation(text, auto_punct)
           attempts == IF transcribed_text = << >> THEN << >> ELSE <<"clipboard">>
           succeeded == IF transcribed_text = << >> THEN << >> ELSE <<injected>>
           send == [text |-> transcribed_text, prefer_clipboard |-> TRUE,
                    attempts |-> attempts, succeeded |-> succeeded,
                    success |-> SendResult(attempts, succeeded).success,
                    error |-> SendResult(attempts, succeeded).error]
           result == IF SkipsInjection(transcribed_text) THEN "empty_text"
                     ELSE IF ~cfg.injector THEN "injector_missing"
                     ELSE IF send.success THEN "injection_success" ELSE "injection_failed"
           sent == result \in {"injection_success", "injection_failed"}
           event == CASE result = "empty_text" ->
                           InjectionEvent("injection_failure", session_id, << >>,
                                          "Empty transcription result")
                      [] result = "injector_missing" ->
                           InjectionEvent("injection_failure", session_id, transcribed_text,
                                          "TextInjector not available")
                      [] result = "injection_failed" ->
                           InjectionEvent("injection_failure", session_id, transcribed_text,
                                          send.error)
                      [] OTHER ->
                           InjectionEvent("injection_success", session_id, transcribed_text,
                                          "none")
       IN /\ injection_events' = Append(injection_events, event)
          /\ sends' = IF sent THEN sends + 1 ELSE sends
          /\ last_send' = IF sent THEN send ELSE last_send
          /\ Finish(last, result)
          /\ cycle' = Cycle([cycle EXCEPT !.clean = @ /\ result = "injection_success",
                                          !.emitted = TRUE])
    /\ pc' = "idle"
    /\ session_id' = None
    /\ in_flight' = None
    /\ is_processing' = ProcessingAfterHandler(FALSE)
    /\ UNCHANGED <<detVars, queueVars, hotkeys, envVars, iconVars, coordVars, ctlVars, boardVars, first_permission, current_session_id, uuids, polls,
                   consumer_running, svcVars, last_start, last_stop>>

ReloadOutcomes == {"ok", "error"}

\* reload_transcriber.  outcome: "ok", or "error" (constructing the new
\* LightningWhisperTranscriber raised, self.transcriber keeps the old one).
ReloadTranscriber(outcome) ==
    /\ shutdown_calls' = Append(shutdown_calls, transcriber)
    /\ transcriber' = IF outcome = "ok" THEN Len(shutdown_calls) + 2 ELSE transcriber

\* PreferencesStore.set(LANGUAGE, value) from the preferences window: the
\* store notifies _on_preference_changed, which calls reload_transcriber.
LanguageChanged(outcome) ==
    /\ listening
    /\ writable
    /\ Len(shutdown_calls) < MaxReloads
    /\ ReloadTranscriber(outcome)
    /\ UNCHANGED <<detVars, queueVars, hotkeys, envVars, iconVars, coordVars, boardVars, sendVars, orchVars, listening, svcVars,
                   histVars>>

\* TranscriptionOrchestrator.shutdown, called once when the application ends.
Shutdown(outcome) ==
    /\ listening
    /\ listening' = FALSE
    /\ LET r == IF current_session_id # None
                THEN CancelRecording(audio, files, outcome)
                ELSE [audio |-> audio, files |-> files]
       IN /\ audio' = r.audio
          /\ files' = r.files
    /\ shutdown_calls' = Append(shutdown_calls, transcriber)
    /\ UNCHANGED <<detVars, queueVars, hotkeys, envVars, iconVars, coordVars, boardVars, sendVars, orchVars, transcriber, perm,
                   prefs, histVars>>

\* ------------------------------------------------------------------- Next
Next ==
    \/ \E inside \in BOOLEAN : HandleMouseDown(inside)
    \/ HandleMouseUp
    \/ \E t \in TaskIds : FireHold(t)
    \/ HotkeyPressed
    \/ OnPressStarted
    \/ OnHoldStarted
    \/ \E granted \in BOOLEAN : MicRequestDone(granted)
    \/ AxPoll
    \/ \E res \in LegacyMicOutcomes : LegacyMicDone(res)
    \/ OnPressReleased
    \/ TranscriptionFailed
    \/ \E text \in Texts, auto_punct \in BOOLEAN, injected \in BOOLEAN :
          TranscriptionDone(text, auto_punct, injected)

Spec == Init /\ [][Next]_vars

\* The application started with --disable-press-hold: the global hotkey is
\* the only producer of press events.
NextHotkey ==
    \/ HotkeyPressed
    \/ OnPressStarted
    \/ OnHoldStarted
    \/ \E granted \in BOOLEAN : MicRequestDone(granted)
    \/ AxPoll
    \/ \E res \in LegacyMicOutcomes : LegacyMicDone(res)
    \/ OnPressReleased
    \/ TranscriptionFailed
    \/ \E text \in Texts, auto_punct \in BOOLEAN, injected \in BOOLEAN :
          TranscriptionDone(text, auto_punct, injected)

SpecHotkey == Init /\ [][NextHotkey]_vars

\* The same program with every history recorded.
InitHistory == InitWith(TRUE, TRUE, TRUE)

SpecHistory == InitHistory /\ [][Next]_vars

\* The same program when the preferences file cannot be written.
InitUnwritable == InitWith(TRUE, FALSE, FALSE)

SpecUnwritable == InitUnwritable /\ [][Next]_vars

\* The program with language changes and the final shutdown.
NextLifecycle ==
    \/ Next
    \/ \E outcome \in ReloadOutcomes : LanguageChanged(outcome)
    \/ \E outcome \in CancelOutcomes : Shutdown(outcome)

SpecLifecycle == Init /\ [][NextLifecycle]_vars

\* The detector before handle_press_lifecycle is started: its events only
\* accumulate in the queue.
InitDetector == InitWith(FALSE, TRUE, TRUE)

DetectorMouseDown(inside) == MouseDown(MaxDetectorDowns, inside)

NextDetector ==
    \/ \E inside \in BOOLEAN : DetectorMouseDown(inside)
    \/ HandleMouseUp
    \/ \E t \in TaskIds : FireHold(t)

SpecDetector == InitDetector /\ [][NextDetector]_vars

\* The two producers of press events with nobody consuming the queue.
NextProducers ==
    \/ \E inside \in BOOLEAN : HandleMouseDown(inside)
    \/ HandleMouseUp
    \/ \E t \in TaskIds : FireHold(t)
    \/ HotkeyPressed

SpecProducers == InitDetector /\ [][NextProducers]_vars

\* The icon of a controller alone, inside a running loop.
NextIcon ==
    \/ \E state \in IconState : SetState(state)
    \/ \E t \in 1..MaxRequests : DelayElapsed(t)
    \/ RunReady

SpecIcon == InitDetector /\ [][NextIcon]_vars

\* The text injector alone, built with either value of restore_clipboard.
InitInjector ==
    /\ \E restores \in BOOLEAN : InitState(FALSE, FALSE, TRUE, restores)
    /\ cfg = [coordinator |-> TRUE, injector |-> TRUE]

NextInjector ==
    \/ \E c \in Clips : ExternalCopy(c)
    \/ \E text \in Texts, prefer_clipboard \in BOOLEAN, env \in InjectEnv :
           SendTextCall(text, prefer_clipboard, env)

SpecInjector == InitInjector /\ [][NextInjector]_vars

\* The permissions coordinator alone, with an on_state_change callback and a
\* preferences file that can or cannot be written.
InitCoordinator ==
    /\ \E saves \in BOOLEAN : InitState(FALSE, FALSE, saves, TRUE)
    /\ cfg = [coordinator |-> TRUE, injector |-> TRUE]

NextCoordinator ==
    \/ \E granted \in BOOLEAN, cb \in CallbackOutcomes :
           CheckMicrophonePermissionCall(granted, cb)
    \/ \E ax \in AxOutcomes, cb \in CallbackOutcomes :
           CheckAccessibilityPermissionCall(ax, cb)

SpecCoordinator == InitCoordinator /\ [][NextCoordinator]_vars

\* The coordinator with calls of wait_for_accessibility_permission.
NextWait ==
    \/ \E ax \in AxOutcomes, cb \in CallbackOutcomes :
           CheckAccessibilityPermissionCall(ax, cb)
    \/ \E timeout \in 0..MaxTimeout, poll_interval \in 1..MaxInterval, ax \in AxOutcomes :
           WaitCall(timeout, poll_interval, ax)
    \/ \E ax \in AxOutcomes : WaitPoll(ax)

SpecWait == InitCoordinator /\ [][NextWait]_vars

\* ----------------------------------------------------------------- claims
\* The consumer takes a hold_started / press_released event in this step.
HoldTaken ==
    /\ pc = "idle" /\ consumer_running /\ press_events # << >>
    /\ Head(press_events) = "hold_started"
    /\ press_events' = Tail(press_events)

ReleaseTaken ==
    /\ pc = "idle" /\ consumer_running /\ press_events # << >>
    /\ Head(press_events) = "press_released"
    /\ press_events' = Tail(press_events)

\* The handler of the event handled last has finished.
Finished(type) == last.type = type /\ last.result # "pending"

\* Number of outcome events that carry session id sid.
Outcomes(sid) ==
    Cardinality({i \in DOMAIN injection_events : injection_events[i].session_id = sid})

\* C1: a hold_started handled while a session is active (the orchestrator
\* holds a session id under which the capture is running) does not replace
\* the held session id and does not lead to a start_recording call.
C1_AtMostOneSession ==
    [][ /\ (HoldTaken /\ SessionLive) => current_session_id' = current_session_id
        /\ ~last_start'.live ]_vars

\* C2: once the handling of a press_released whose stop_recording returned
\* an artifact has finished, injection_events holds exactly one event with
\* that session's id.
C2_OutcomeCompleteness ==
    (Finished("press_released") /\ last.result \notin {"no_session", "stop_failed"})
        => Outcomes(last_stop.session_id) = 1

\* C3: with a PermissionsCoordinator, every start_recording call is made
\* with the microphone state granted, and the step in which ensure_ready
\* resolves the microphone to denied ends the handler without a call.
\* (Each call carries a fresh session id, so last_start changes at each call.)
C3_PermissionGate ==
    [][ /\ (cfg.coordinator /\ last_start' # last_start) => perm'.microphone = "granted"
        /\ (pc = "ensure_ready_mic" /\ pc' # pc /\ perm'.microphone = "denied")
              => (pc' = "idle" /\ UNCHANGED <<last_start, audio, files>>) ]_vars

\* C3 witness: a capture was started under a granted microphone, and a later
\* hold_started was turned away because the microphone was denied.
C3_Witness ==
    /\ cfg.coordinator
    /\ last_start.session_id # None /\ last_start.microphone = "granted"
    /\ Finished("hold_started") /\ last.result = "permission_denied"
    /\ perm.microphone = "denied"

\* C4: no hold_started is emitted for a press whose up-event was received
\* while its hold delay was still outstanding.  (The task of a press is
\* "done" exactly when its hold_started has been emitted.)
C4_TapNeverHolds ==
    \A t \in DOMAIN tasks : tasks[t] = "done" => t \notin tapped

\* C5: stop_recording called with an id other than the active session's id
\* while the service is recording returns no artifact and leaves the service
\* (recording flag, session id, artifact, lifecycle queue) and the files as
\* they were.
C5_StopSessionMatch ==
    [][ (ReleaseTaken /\ current_session_id # None /\ audio.is_recording
            /\ audio.session_id # current_session_id)
        => (audio' = audio /\ files' = files /\ last_stop'.result = None
            /\ last_stop'.session_id = current_session_id) ]_vars

\* C5 witness: stop_recording was called with a non-matching id while the
\* service was recording, and the service is still recording that session.
C5_Witness ==
    /\ last_stop.session_id # None
    /\ last_stop.recording
    /\ last_stop.active # last_stop.session_id
    /\ audio.is_recording /\ audio.session_id = last_stop.active

\* C6: when the handling of a press_released has finished, the orchestrator
\* holds no session id, is not processing, and its consumer loop is alive.
C6_ReturnToIdle ==
    Finished("press_released")
        => (current_session_id = None /\ ~is_processing /\ consumer_running)

\* C6 witness: a press_released whose transcription raised has been handled.
C6_Witness ==
    Finished("press_released") /\ last.result = "transcription_error" /\ pc = "idle"

\* C7: once a press_released has been handled, the audio service is not
\* recording.
C7_StartMatched ==
    (Finished("press_released") /\ pc = "idle") => ~audio.is_recording

\* C8: after some session has ended in a failure, a press_started,
\* hold_started, press_released sequence whose collaborators all succeed
\* starts a capture, stops it and emits an outcome.
C8_FailuresNeverBlock ==
    (/\ Finished("press_released") /\ pc = "idle"
     /\ cycle.events = <<"press_started", "hold_started", "press_released">>
     /\ cycle.after_failure /\ cycle.clean)
        => (cycle.started /\ cycle.stopped /\ cycle.emitted)

\* C9: when the handling of a hold_started ended because ensure_ready raised
\* a permission error or start_recording raised, the orchestrator holds no
\* session id.
C9_HoldFailureIdle ==
    (Finished("hold_started") /\ last.result \in {"permission_denied", "start_failed"})
        => current_session_id = None

\* C10: a hold_started that was enqueued while a session was Transcribing
\* creates no session and leads to no start_recording call.
C10_LateHoldIgnored ==
    [][ /\ (HoldTaken /\ Head(enq_late)) => current_session_id' = current_session_id
        /\ ~last_start'.late ]_vars

\* C11: while a transcribe_audio call is awaited, a language change neither
\* replaces self.transcriber nor shuts a transcriber instance down.
C11_HotSwapSafe ==
    [][ (pc = "transcribing" /\ listening')
        => (transcriber' = transcriber /\ shutdown_calls' = shutdown_calls) ]_vars

\* C12: the step in which shutdown() runs leaves the audio service not
\* recording, the artifact of a capture that was in progress deleted, and
\* the transcriber shut down.
C12_ShutdownCancels ==
    [][ (listening /\ ~listening')
        => (/\ ~audio'.is_recording
            /\ audio.is_recording => audio.temp_file_path \notin files'
            /\ shutdown_calls' = Append(shutdown_calls, transcriber)) ]_vars

\* C13: once the terminal event of a session (outcome success, outcome
\* failure or transcription error) has been processed, the session's audio
\* artifact no longer exists.
C13_ArtifactReleased ==
    (/\ Finished("press_released") /\ pc = "idle"
     /\ last.result \in {"injection_success", "injection_failed", "empty_text",
                         "injector_missing", "transcription_error"})
        => last_stop.session_id \notin files

\* C14: a hold_started is not turned away by ensure_ready while the
\* microphone is granted.
C14_AccessibilityNotBlocking ==
    (cfg.coordinator /\ Finished("hold_started") /\ last.result = "permission_denied")
        => perm.microphone # "granted"

\* C15: at most one hold delay is outstanding at any time.
C15_OneHoldDelay ==
    Cardinality({t \in DOMAIN tasks : tasks[t] = "sleeping"}) <= 1

\* C16: no step moves the microphone or the accessibility state away from
\* granted (no step of this specification is refresh_all_permissions).
C16_GrantedOneWay ==
    [][ /\ perm.microphone = "granted" => perm'.microphone = "granted"
        /\ perm.accessibility = "granted" => perm'.accessibility = "granted" ]_vars

C18_PermissionPersisted ==
    /\ prefs.microphone_state = perm.microphone
    /\ prefs.accessibility_state = perm.accessibility

C21_CancelDiscards ==
    [][ (listening /\ ~listening' /\ current_session_id # None)
        => IF audio.is_recording
           THEN /\ ~audio'.is_recording
                /\ audio.temp_file_path \notin files'
                /\ audio'.event_queue = audio.event_queue
           ELSE audio' = audio /\ files' = files ]_vars

\* C22: a send_text call with non-empty text and prefer_clipboard off tries
\* the direct strategy first; the clipboard strategy is attempted only after
\* the direct one failed, and if it then succeeds the call returns (True, None).
C22_DirectThenClipboard ==
    (sends > 0 /\ last_send.text # << >> /\ ~last_send.prefer_clipboard)
        => /\ Head(last_send.attempts) = "direct"
           /\ last_send.attempts \in {<<"direct">>, <<"direct", "clipboard">>}
           /\ Len(last_send.attempts) = 2 => ~last_send.succeeded[1]
           /\ (Len(last_send.attempts) = 2 /\ last_paste.success)
                  => (last_send.success /\ last_send.error = NoDetail)

C22_Witness ==
    /\ sends > 0 /\ last_send.text # << >> /\ ~last_send.prefer_clipboard
    /\ last_send.attempts = <<"direct", "clipboard">>
    /\ last_send.succeeded = <<FALSE, TRUE>>
    /\ last_send.success /\ last_send.error = NoDetail

\* C23: a send_text call with non-empty text and prefer_clipboard on uses the
\* clipboard strategy only (no direct keystroke is posted) and returns
\* (True, None) if paste_text succeeded, (False, an error detail) otherwise.
C23_PreferClipboard ==
    [][ (sends' # sends /\ last_send'.text # << >> /\ last_send'.prefer_clipboard)
        => /\ last_send'.attempts = <<"clipboard">>
           /\ \A i \in DOMAIN posted' : i > Len(posted) => posted'[i].key # "unicode"
           /\ last_send'.success = last_paste'.success
           /\ IF last_paste'.success
              THEN last_send'.error = NoDetail
              ELSE last_send'.error \notin {NoDetail, ""} ]_vars

C23_Witness ==
    /\ sends > 0 /\ last_send.text # << >> /\ last_send.prefer_clipboard
    /\ last_send.attempts = <<"clipboard">>
    /\ last_paste.keystroke /\ last_send.success /\ last_send.error = NoDetail

\* C24: send_text returns success False, with a non-empty error detail,
\* exactly when the text is empty or no strategy it attempted succeeded (the
\* combined detail when both failed), and the detail None exactly when it
\* returns success True.
C24_NoSwallowedFailure ==
    sends > 0
        => /\ ~last_send.success
                <=> (\/ last_send.text = << >>
                     \/ \A i \in DOMAIN last_send.succeeded : ~last_send.succeeded[i])
           /\ ~last_send.success => last_send.error \notin {NoDetail, ""}
           /\ last_send.success <=> last_send.error = NoDetail
           /\ last_send.succeeded = <<FALSE, FALSE>>
                => last_send.error = "Both keystroke injection and clipboard fallback failed"

C24_Witness ==
    /\ sends > 0 /\ last_send.text # << >>
    /\ last_send.attempts = <<"direct", "clipboard">>
    /\ last_send.succeeded = <<FALSE, FALSE>>
    /\ ~last_send.success
    /\ last_send.error = "Both keystroke injection and clipboard fallback failed"

C26_PartialSuccess ==
    [][ (sends' # sends /\ last_paste'.trust = "untrusted")
        => /\ clipboard' = ClipText(last_paste'.text)
           /\ posted' = posted
           /\ last_paste'.success
           /\ last_send'.success /\ last_send'.error = NoDetail ]_vars

C26_Witness ==
    /\ sends > 0 /\ last_paste.trust = "untrusted" /\ last_paste.text # << >>
    /\ clipboard = ClipText(last_paste.text)
    /\ ~last_paste.keystroke /\ last_paste.success
    /\ last_send.success

\* C27: when _on_press_released puts an outcome event on injection_events,
\* an event with empty text means that send_text was not called and the
\* event is injection_failure with char_count 0; an event with non-empty
\* text carries the length of that text as char_count, and if an injector is
\* present it is the text send_text was called with.
C27_EmptyNotInjected ==
    [][ (pc = "transcribing" /\ Len(injection_events') = Len(injection_events) + 1)
        => LET e == injection_events'[Len(injection_events')]
           IN IF e.text = << >>
              THEN /\ sends' = sends
                   /\ e.type = "injection_failure"
                   /\ e.char_count = 0
              ELSE /\ e.char_count = Len(e.text)
                   /\ cfg.injector => /\ sends' = sends + 1
                                      /\ last_send'.text = e.text
                                      /\ e.char_count = Len(last_send'.text) ]_vars

\* Both cases have happened: the outcome of session 1 is the empty-text
\* failure, session 2 sent a non-empty text to the injector.
C27_Witness ==
    /\ Len(injection_events) = 2
    /\ injection_events[1].text = << >> /\ injection_events[1].char_count = 0
    /\ injection_events[1].error_message = "Empty transcription result"
    /\ sends = 1 /\ last_send.text # << >>
    /\ injection_events[2].text = last_send.text
    /\ injection_events[2].char_count = Len(last_send.text)

C30_PermissionIdempotent ==
    [][ /\ (pc # "legacy_mic" /\ pc' = "legacy_mic") => ~audio.permission_requested
        /\ (HoldTaken /\ ~cfg.coordinator /\ ~is_processing /\ audio.permission_requested)
           => IF first_permission = "granted"
              THEN last'.result # "permission_failed"
              ELSE last'.result = "permission_failed" ]_vars

\* C31: a press_released handled while the orchestrator holds no session id
\* calls neither stop_recording nor the transcriber, emits no outcome and
\* changes no state of the orchestrator or the audio service; and neither
\* the press_started handler nor the press_released handler starts a
\* capture, so a tap never enters recording.
C31_ReleaseWithoutSession ==
    [][ /\ (ReleaseTaken /\ current_session_id = None)
           => /\ last_stop' = last_stop /\ audio' = audio /\ files' = files
              /\ in_flight' = in_flight /\ transcriber' = transcriber
              /\ injection_events' = injection_events /\ sends' = sends
              /\ pc' = "idle" /\ current_session_id' = None
              /\ is_processing' = is_processing /\ session_id' = session_id
        /\ (/\ pc = "idle" /\ press_events # << >>
            /\ Head(press_events) \in {"press_started", "press_released"}
            /\ press_events' = Tail(press_events))
           => /\ last_start' = last_start
              /\ audio'.is_recording => audio.is_recording ]_vars

\* A tap has been handled to its end: one press whose hold delay was
\* cancelled, both its events consumed, and no capture was ever started.
C31_Witness ==
    /\ tasks = <<"cancelled">> /\ hotkeys = 0 /\ press_events = << >>
    /\ last.type = "press_released" /\ last.result = "no_session"
    /\ last_start = NoStart /\ last_stop = NoStop
    /\ ~audio.is_recording /\ injection_events = << >>

RECURSIVE PressPhase(_, _)
PressPhase(evs, at) ==
    IF evs = << >> THEN at
    ELSE LET e == Head(evs)
             to == CASE at = "out" /\ e = "press_started" -> "started"
                     [] at = "started" /\ e = "hold_started" -> "held"
                     [] at \in {"started", "held"} /\ e = "press_released" -> "out"
                     [] OTHER -> "bad"
         IN IF to = "bad" THEN "bad" ELSE PressPhase(Tail(evs), to)

\* C33: the events the detector has emitted form a sequence of well-formed
\* presses (press_started, at most one hold_started, press_released; no
\* hold_started after the press_released of its press), the last of which
\* may still be open.
C33_WellFormedPresses == PressPhase(press_events, "out") # "bad"

C35_CallbackOncePerChange ==
    [][ updates' # updates
        => /\ perm' # perm
              => /\ notified'.calls = 1
                 /\ notified'.status = perm'
                 /\ notified'.outcome \in {"returned", "logged"}
                 /\ notified'.capability = "microphone"
                    => /\ perm'.microphone = notified'.new_state
                       /\ perm'.accessibility = perm.accessibility
                 /\ notified'.capability = "accessibility"
                    => /\ perm'.accessibility = notified'.new_state
                       /\ perm'.microphone = perm.microphone
           /\ perm' = perm => notified'.calls = 0 ]_vars

\* C35 witness: the callback raised on a change of the accessibility state
\* and the coordinator holds the new state.
C35_Witness ==
    /\ notified.capability = "accessibility"
    /\ notified.calls = 1
    /\ notified.outcome = "logged"
    /\ notified.status = perm
    /\ perm.accessibility = "granted"
    /\ perm.microphone = "denied"

\* C36: a notification for the language key shuts the transcriber held so far
\* down and puts a newly constructed instance, one that was never shut down,
\* in its place; a notification for another key (the permission states the
\* coordinator stores) leaves the instance and the shutdown calls as they were.
C36_LanguageSwapsTranscriber ==
    [][ /\ (listening' /\ shutdown_calls' # shutdown_calls)
           => /\ shutdown_calls' = Append(shutdown_calls, transcriber)
              /\ transcriber' # transcriber
              /\ \A i \in DOMAIN shutdown_calls' : shutdown_calls'[i] # transcriber'
        /\ prefs' # prefs
           => (transcriber' = transcriber /\ shutdown_calls' = shutdown_calls) ]_vars

\* C37: wait_for_accessibility_permission makes at most timeout/poll_interval
\* polls in its loop, which bounds its run; when it has returned, either it
\* returned granted from a check that observed trust, or no check observed
\* trust, it left the accessibility state denied and it returned denied.
C37_WaitTerminates ==
    /\ wait.polls * wait.poll_interval <= wait.timeout
    /\ wait.pc = "returned"
       => \/ wait.result = "granted" /\ wait.observed
          \/ wait.result = "denied" /\ ~wait.observed /\ wait.left = "denied"

\* The values of pc at which the consumer coroutine is suspended on the named
\* operation and the loop is free to run the producers' enqueues; the capture
\* start and stop and send_text are plain calls inside a handler.
Awaits(operation) ==
    CASE operation = "microphone_request" -> {"ensure_ready_mic", "legacy_mic"}
      [] operation = "transcription" -> {"transcribing"}
      [] OTHER -> {}

\* C38: every blocking operation runs while the consumer is suspended on it:
\* the step in which a capture start, a capture stop, a send_text or a
\* transcription ends begins at a point where the consumer awaits that
\* operation, so press events could be enqueued while it was in progress.
C38_ConsumerNeverBlocks ==
    [][ /\ last_start' # last_start => pc \in Awaits("start_recording")
        /\ last_stop' # last_stop => pc \in Awaits("stop_recording")
        /\ last_send' # last_send => pc \in Awaits("send_text")
        /\ (in_flight # None /\ in_flight' = None) => pc \in Awaits("transcription")
        /\ perm'.microphone # perm.microphone => pc \in Awaits("microphone_request") ]_vars

\* C39: whenever the orchestrator holds a session id for which the last
\* start_recording call returned without raising, the audio service is
\* recording under that id.
C39_SessionIdAgreement ==
    (/\ current_session_id # None
     /\ last_start.session_id = current_session_id
     /\ ~last_start.raised)
    => (audio.is_recording /\ audio.session_id = current_session_id)

\* C40: every step that changes injection_events appends one event to it; the
\* event carries the id of the session whose capture the last stop_recording
\* call stopped and returned an artifact for, and the queue held no event
\* with that id before.
C40_OneOutcomePerStoppedSession ==
    [][ injection_events' # injection_events
        => /\ Len(injection_events') = Len(injection_events) + 1
           /\ SubSeq(injection_events', 1, Len(injection_events)) = injection_events
           /\ LET e == injection_events'[Len(injection_events')]
              IN /\ e.session_id # None
                 /\ Outcomes(e.session_id) = 0
                 /\ last_stop.session_id = e.session_id
                 /\ last_stop.result # None
                 /\ last_stop.recording /\ last_stop.active = e.session_id ]_vars

\* C40 witness: two sessions were stopped one after the other and the queue
\* holds one event for each of them.
C40_Witness ==
    /\ Len(injection_events) = 2
    /\ injection_events[1].session_id # injection_events[2].session_id
    /\ injection_events[1].type = "injection_failure"
    /\ injection_events[2].type = "injection_success"
    /\ last_stop.session_id = injection_events[2].session_id
    /\ last_stop.result # None

====
